---- MODULE Spec2Model ----
(***************************************************************************)
(* Request lifecycle of the Kafka admin portal (backend/app): submission,  *)
(* approval with provisioning on the Kafka cluster, rejection and          *)
(* cancellation of topic / ACL requests, with the audit log.               *)
(*                                                                         *)
(* The store is the PostgreSQL database of config.py (DATABASE_URL); every *)
(* HTTP call is served by a worker that owns one SQLAlchemy session.       *)
(* Workers share nothing but the store and the Kafka cluster, so calls     *)
(* interleave at the granularity of store statements (SELECT, COMMIT) and  *)
(* of calls to the Kafka admin clients. The handlers take no lock and use  *)
(* no SELECT ... FOR UPDATE; the store runs at READ COMMITTED.             *)
(***************************************************************************)
EXTENDS Integers, Sequences, FiniteSets, TLC

\* ------------------------------------------------------------------ bounds
\* Calls that may be in flight at once.
MaxWorkers == 2
\* Rows the requests table may hold; request ids range over 1..MaxRequests.
MaxRequests == 1
\* HTTP / service calls started in one behaviour.
MaxCalls == 3
\* Rows of the requests table the read operations are run on.
MaxStored == 3
\* Calls that consume the budget in the behaviours that mix every operation.
MaxFrameCalls == 2

Workers == 1..MaxWorkers
RequestIds == 1..MaxRequests

\* ------------------------------------------------------------- value sets
\* Optional values (a nullable column, a Python None).
None == <<>>
Some(x) == <<x>>

Users == {"alice", "bob"}
\* The users who submit requests here.
Submitters == {"alice"}
\* The handlers treat every admin alike; calls by one admin may still overlap.
Admins == {"admin1"}

RequestTypes == {"TOPIC", "ACL"}
RequestStatuses == {"PENDING", "APPROVED", "REJECTED", "CANCELLED"}

\* The payloads users submit (schemas/request.py accepts both).
TopicDetails ==
    [topic_name |-> "orders.v1", partitions |-> 3, replication_factor |-> 2]
AclDetails ==
    [principal |-> "User:alice", operation |-> "READ", resource_type |-> "TOPIC",
     resource_name |-> "orders.v1", host_pattern |-> "*"]
DetailsOf(request_type) ==
    IF request_type = "TOPIC" THEN TopicDetails ELSE AclDetails

\* rejection_reason of the reject call's body: absent, empty or a text.
RejectionReasons == {None, Some(""), Some("duplicate")}

\* Python's dict.get(key, default).
Get(d, key, default) == IF key \in DOMAIN d THEN d[key] ELSE default

\* The body of a submission: RequestCreate's three fields as sent.
Body(request_type, details, rationale) ==
    [request_type |-> request_type, details |-> details, rationale |-> rationale]

\* The two endpoints of routes/requests.py and the kind each one takes.
Endpoints == {"topic", "acl"}
EndpointType(endpoint) == IF endpoint = "topic" THEN "TOPIC" ELSE "ACL"

\* Well-formed submissions, each sent to the endpoint of its kind.
TypicalSubmissions ==
    {[endpoint |-> e, body |-> Body(EndpointType(e), DetailsOf(EndpointType(e)), Some(10))] :
        e \in Endpoints}

\* Payloads at and around the limits of the schemas.
TopicPayloads ==
    {[TopicDetails EXCEPT !.topic_name = n] : n \in {"", "orders v1", "orders.v1\n", "aaa...(256)"}}
        \cup {[TopicDetails EXCEPT !.partitions = n] : n \in {0, 1, 100, 101}}
        \cup {[TopicDetails EXCEPT !.replication_factor = n] : n \in {0, 1, 3, 4}}
        \cup {[topic_name |-> "orders.v1"]}
AclPayloads ==
    {AclDetails, [AclDetails EXCEPT !.principal = ""],
     [AclDetails EXCEPT !.operation = "GRANT"],
     [AclDetails EXCEPT !.resource_type = "BROKER"],
     [AclDetails EXCEPT !.resource_name = ""],
     [principal |-> "User:alice", operation |-> "READ", resource_type |-> "TOPIC"],
     [principal |-> "User:alice", operation |-> "READ", resource_type |-> "TOPIC",
      resource_name |-> "orders.v1"]}
Rationales == {None, Some(0), Some(9), Some(10), Some(1000), Some(1001)}

\* Submissions of every shape, sent to either endpoint.
AllSubmissions ==
    {[endpoint |-> e, body |-> b] :
        e \in Endpoints,
        b \in {Body("TOPIC", d, Some(10)) : d \in TopicPayloads}
                 \cup {Body("ACL", d, Some(10)) : d \in AclPayloads}
                 \cup {Body(t, DetailsOf(t), r) : t \in RequestTypes, r \in Rationales}}

\* ------------------------------------------------------ schemas/request.py
\* Field limits of the request schemas.
TopicNameMaxLength == 255
PartitionsMax == 100
ReplicationFactorMax == 3
RationaleMinLength == 10
RationaleMaxLength == 1000

\* The characters of the class [a-zA-Z0-9._-].
TopicNameAlphabet ==
    {"a", "b", "c", "d", "e", "f", "g", "h", "i", "j", "k", "l", "m", "n", "o", "p",
     "q", "r", "s", "t", "u", "v", "w", "x", "y", "z",
     "A", "B", "C", "D", "E", "F", "G", "H", "I", "J", "K", "L", "M", "N", "O", "P",
     "Q", "R", "S", "T", "U", "V", "W", "X", "Y", "Z",
     "0", "1", "2", "3", "4", "5", "6", "7", "8", "9", ".", "_", "-"}

\* The topic names submitted here, and the characters each is made of.
TopicNames == {"orders.v1", "", "orders v1", "orders.v1\n", "aaa...(256)"}
Chars(topic_name) ==
    CASE topic_name = "orders.v1" -> <<"o", "r", "d", "e", "r", "s", ".", "v", "1">>
      [] topic_name = "" -> <<>>
      [] topic_name = "orders v1" -> <<"o", "r", "d", "e", "r", "s", " ", "v", "1">>
      [] topic_name = "orders.v1\n" ->
           <<"o", "r", "d", "e", "r", "s", ".", "v", "1", "\n">>
      [] topic_name = "aaa...(256)" -> [i \in 1..(TopicNameMaxLength + 1) |-> "a"]

\* re.match(r'^[a-zA-Z0-9._-]+$', v): one or more characters of the class up
\* to the end of the string, where `$` also matches just before a newline
\* that ends the string.
TopicNameMatches(chars) ==
    LET n == Len(chars)
        body == IF n > 0 /\ chars[n] = "\n" THEN SubSeq(chars, 1, n - 1) ELSE chars
    IN Len(body) >= 1 /\ \A i \in 1..Len(body) : body[i] \in TopicNameAlphabet

\* TopicRequestDetails(**v) raises no error.
TopicRequestDetails(v) ==
    /\ {"topic_name", "partitions", "replication_factor"} \subseteq DOMAIN v
    /\ Len(Chars(v.topic_name)) >= 1
    /\ Len(Chars(v.topic_name)) <= TopicNameMaxLength
    /\ TopicNameMatches(Chars(v.topic_name))
    /\ v.partitions >= 1 /\ v.partitions <= PartitionsMax
    /\ v.replication_factor >= 1 /\ v.replication_factor <= ReplicationFactorMax

\* db/models.py: the members of the enumerations ACLOperation, ACLResourceType.
ACLOperation ==
    {"READ", "WRITE", "CREATE", "DELETE", "ALTER", "DESCRIBE", "CLUSTER_ACTION", "ALL"}
ACLResourceType == {"TOPIC", "GROUP", "CLUSTER", "TRANSACTIONAL_ID"}

\* ACLRequestDetails(**v) raises no error.
ACLRequestDetails(v) ==
    /\ {"principal", "operation", "resource_type", "resource_name"} \subseteq DOMAIN v
    /\ v.principal # ""
    /\ v.operation \in ACLOperation
    /\ v.resource_type \in ACLResourceType
    /\ v.resource_name # ""

\* A rationale text is represented by its length, all the code reads of it;
\* None is a body without the field. Optional[str] with min_length /
\* max_length: None passes, a text must have a length within the limits.
RationaleValid(rationale) ==
    rationale = None
        \/ (rationale[1] >= RationaleMinLength /\ rationale[1] <= RationaleMaxLength)

\* RequestCreate(**body) raises no error (FastAPI answers 422 otherwise).
RequestCreate(body) ==
    /\ body.request_type \in RequestTypes
    /\ IF body.request_type = "TOPIC" THEN TopicRequestDetails(body.details)
       ELSE ACLRequestDetails(body.details)
    /\ RationaleValid(body.rationale)

\* --------------------------------------------------------------- variables
VARIABLES
    requests,     \* the requests table: a sequence of rows, id = index
    audit_logs,   \* the audit_logs table, in insertion order
    now,          \* the store's clock (func.now() of the server defaults)
    topics,       \* topics known to exist on the Kafka cluster
    acls,         \* ACL bindings known to exist on the Kafka cluster
    authorizer,   \* the cluster's authorizer: "unknown", "enabled", "disabled"
    pc,           \* pc[w]: where worker w is in its handler
    call,         \* call[w]: the handler's arguments and locals
    calls_left,   \* calls that may still start
    prov_log,     \* every create call made on the cluster, in order
    commit_log,   \* every committed change of a request's status, in order
    decided,      \* request ids on which an approve / reject call that found
                  \* the request has returned
    users         \* the users table: username -> row

vars == <<requests, audit_logs, now, topics, acls, authorizer, pc, call,
          calls_left, prov_log, commit_log, decided, users>>
store == <<requests, audit_logs, now>>
cluster == <<topics, acls, authorizer>>
logs == <<prov_log, commit_log>>

\* ------------------------------------------------------------ the tables
\* A freshly inserted Request row (db/models.py): status defaults to PENDING,
\* created_at to the server's now(), the other nullable columns to NULL.
NewRequest(user_id, request_data) ==
    [user_id |-> user_id, request_type |-> request_data.request_type,
     status |-> "PENDING", details |-> request_data.details,
     rationale |-> request_data.rationale, created_at |-> Some(now),
     approved_at |-> None, rejected_at |-> None, admin_user_id |-> None,
     rejection_reason |-> None]

\* UserService.create_user: the User row it inserts (is_active TRUE, no
\* last_login yet).
NewUser(is_admin) == [is_admin |-> is_admin, is_active |-> TRUE, last_login |-> None]

\* The accounts of the callers of the request handlers, as their first
\* logins created them.
KnownUsers == [u \in Users \cup Admins |-> NewUser(u \in Admins)]

\* An account besides: an administrator whose account has been deactivated
\* in the store (no handler writes is_active).
Inactive == {"carol"}
AllAccounts ==
    [u \in Users \cup Admins \cup Inactive |->
        IF u \in Inactive THEN [NewUser(u = "carol") EXCEPT !.is_active = FALSE]
        ELSE KnownUsers[u]]

\* request.client.host of the calls made here.
ClientHost == Some("10.0.0.7")

\* AuditService.log_action: the AuditLog row it inserts.
AuditEntry(user_id, action, resource_type, resource_id, details) ==
    [user_id |-> user_id, action |-> action, entity_type |-> resource_type,
     entity_id |-> resource_id, changes |-> details, timestamp |-> now,
     ip_address |-> ClientHost]

\* Mutant: the newest entry is written over instead of a row being inserted.
LogActionOverwritingLast(entry) ==
    IF audit_logs = <<>> THEN <<entry>>
    ELSE [audit_logs EXCEPT ![Len(audit_logs)] = entry]

\* AuditService.log_action, db.add and db.commit: the table with the new row.
LogAction(entry) == Append(audit_logs, entry)

\* RequestService.get_request_by_id: the row with that id, or None.
RowById(request_id) ==
    IF request_id \in 1..Len(requests) THEN Some(requests[request_id]) ELSE None

\* ---------------------------------------------------------------- workers
IdleCall ==
    [op |-> "none", request_id |-> 0, user |-> "none", reason |-> None,
     endpoint |-> "none", request_type |-> "none",
     admin_client |-> FALSE, confluent_admin_client |-> FALSE,
     loaded |-> None, broker_response |-> "none", kafka_result |-> None,
     status_code |-> "none", committed |-> FALSE, audited |-> FALSE,
     after_commit |-> FALSE, after_decide |-> FALSE, pending_at_start |-> FALSE,
     terminal_at_start |-> FALSE, after_hard_failure |-> FALSE,
     after_partial_failure |-> FALSE,
     caller |-> [verified |-> FALSE, known |-> FALSE, is_active |-> FALSE,
                 is_admin |-> FALSE],
     directory |-> [verified |-> FALSE, admin_group |-> FALSE],
     ldap_user |-> None, user_row |-> None, result |-> <<>>]

\* A call goes to the lowest idle worker (workers are interchangeable).
Free(w) ==
    /\ pc[w] = "idle"
    /\ \A v \in Workers : v < w => pc[v] # "idle"
    /\ calls_left > 0

\* The response is sent and the worker is free again; call[w] keeps the
\* finished call until the worker takes the next one.
Finish(w, c, code) ==
    /\ pc' = [pc EXCEPT ![w] = "idle"]
    /\ call' = [call EXCEPT ![w] = [c EXCEPT !.status_code = code]]
    /\ decided' = IF c.op \in {"approve", "reject"} /\ c.loaded # None
                  THEN decided \cup {c.request_id} ELSE decided

\* The handler goes on to its next step.
Continue(w, c, label) ==
    /\ pc' = [pc EXCEPT ![w] = label]
    /\ call' = [call EXCEPT ![w] = c]
    /\ UNCHANGED decided

Init ==
    /\ requests = <<>>
    /\ audit_logs = <<>>
    /\ now = 1
    /\ topics = {}
    /\ acls = {}
    /\ authorizer = "unknown"
    /\ pc = [w \in Workers |-> "idle"]
    /\ call = [w \in Workers |-> IdleCall]
    /\ calls_left = MaxCalls
    /\ prov_log = <<>>
    /\ commit_log = <<>>
    /\ decided = {}
    /\ users = KnownUsers

\* ----------------------------------------------------------- KafkaService
\* Texts are sequences of tokens (words and punctuation marks), so that
\* str.lower() and the substring test `in` are computed, not assumed.
LowerTable ==
    [t \in {"Topic", "ACL", "Admin", "Kafka", "This", "Please", "Use",
            "AdminClient", "Invalid", "KafkaTimeoutError", "KafkaConnectionError",
            "TimeoutError", "KafkaError", "SECURITY_DISABLED", "_TRANSPORT",
            "Broker", "Security", "Local", "Timed", "Timeout", "User:alice",
            "READ", "TOPIC", "ACLs"} |->
       CASE t = "Topic" -> "topic"
         [] t = "ACL" -> "acl"
         [] t = "Admin" -> "admin"
         [] t = "Kafka" -> "kafka"
         [] t = "This" -> "this"
         [] t = "Please" -> "please"
         [] t = "Use" -> "use"
         [] t = "AdminClient" -> "adminclient"
         [] t = "Invalid" -> "invalid"
         [] t = "KafkaTimeoutError" -> "kafkatimeouterror"
         [] t = "KafkaConnectionError" -> "kafkaconnectionerror"
         [] t = "TimeoutError" -> "timeouterror"
         [] t = "KafkaError" -> "kafkaerror"
         [] t = "SECURITY_DISABLED" -> "security_disabled"
         [] t = "_TRANSPORT" -> "_transport"
         [] t = "Broker" -> "broker"
         [] t = "Security" -> "security"
         [] t = "Local" -> "local"
         [] t = "Timed" -> "timed"
         [] t = "Timeout" -> "timeout"
         [] t = "User:alice" -> "user:alice"
         [] t = "READ" -> "read"
         [] t = "TOPIC" -> "topic"
         [] t = "ACLs" -> "acls"]

\* str.lower()
Lower(text) ==
    [i \in 1..Len(text) |->
        IF text[i] \in DOMAIN LowerTable THEN LowerTable[text[i]] ELSE text[i]]

\* pattern in text
Contains(text, pattern) ==
    \E i \in 1..(Len(text) - Len(pattern) + 1) :
        SubSeq(text, i, i + Len(pattern) - 1) = pattern

\* str(e) of the exceptions the admin clients raise. The wording is the
\* libraries' (kafka-python, confluent-kafka / librdkafka), not this code's.
ExceptionText(response) ==
    CASE response = "KafkaTimeoutError" ->
           <<"KafkaTimeoutError", ":", "Timeout", "waiting", "for", "future">>
      [] response = "KafkaConnectionError" ->
           <<"KafkaConnectionError", ":", "socket", "disconnected">>
      [] response = "TimeoutError" -> <<>>
      [] response = "SECURITY_DISABLED" ->
           <<"KafkaError", "{", "code", "=", "SECURITY_DISABLED", ",", "val", "=", "54",
             ",", "str", "=", "Broker", ":", "Security", "features", "are",
             "disabled", "}">>
      [] response = "_TRANSPORT" ->
           <<"KafkaError", "{", "code", "=", "_TRANSPORT", ",", "val", "=", "-195",
             ",", "str", "=", "Local", ":", "Broker", "transport", "failure", "}">>
      [] OTHER -> <<response>>

NotInitialized ==
    [success |-> FALSE, error |-> <<"Admin", "client", "not", "initialized">>]

\* KafkaService._init_admin_client: both clients are created in one try block;
\* an exception from either constructor leaves both None.
InitAdminClient(ok) ==
    [admin_client |-> ok, confluent_admin_client |-> ok]

\* Mutant: the except clause for TopicAlreadyExistsError is missing, the
\* exception is reported as str(e) like any other.
CreateTopicWithoutAlreadyExistsClause(admin_client, topic_name, response) ==
    IF ~admin_client THEN NotInitialized
    ELSE IF response = "created"
    THEN [success |-> TRUE,
          message |-> <<"Topic", "'", topic_name, "'", "created", "successfully">>]
    ELSE [success |-> FALSE, error |-> ExceptionText(response)]

\* Mutant: an exception of the admin client is swallowed and reported as success.
CreateTopicSwallowingErrors(admin_client, topic_name, response) ==
    IF response = "TopicAlreadyExistsError"
    THEN [success |-> FALSE,
          error |-> <<"Topic", "'", topic_name, "'", "already", "exists">>]
    ELSE [success |-> TRUE,
          message |-> <<"Topic", "'", topic_name, "'", "created", "successfully">>]

\* KafkaService.create_topic, given what create_topics / future.result() did.
CreateTopic(admin_client, topic_name, response) ==
    IF ~admin_client THEN NotInitialized
    ELSE CASE response = "created" ->
                [success |-> TRUE,
                 message |-> <<"Topic", "'", topic_name, "'", "created", "successfully">>]
           [] response = "TopicAlreadyExistsError" ->
                [success |-> FALSE,
                 error |-> <<"Topic", "'", topic_name, "'", "already", "exists">>]
           [] OTHER -> [success |-> FALSE, error |-> ExceptionText(response)]

AclOperations ==
    {"READ", "WRITE", "CREATE", "DELETE", "ALTER", "DESCRIBE", "CLUSTER_ACTION", "ALL"}
AclResourceTypes == {"TOPIC", "GROUP", "CLUSTER", "TRANSACTIONAL_ID"}

\* The checks of operation_map and resource_type_map, shared by both paths.
InvalidAcl(operation, resource_type) ==
    IF operation \notin AclOperations
    THEN Some([success |-> FALSE, error |-> <<"Invalid", "operation", ":", operation>>])
    ELSE IF resource_type \notin AclResourceTypes
    THEN Some([success |-> FALSE,
               error |-> <<"Invalid", "resource", "type", ":", resource_type>>])
    ELSE None

\* KafkaService._create_acl_confluent: every exception is reported as str(e).
CreateAclConfluent(principal, operation, resource_type, response) ==
    IF InvalidAcl(operation, resource_type) # None
    THEN InvalidAcl(operation, resource_type)[1]
    ELSE IF response = "created"
    THEN [success |-> TRUE,
          message |-> <<"ACL", "created", "successfully", "for", principal>>]
    ELSE [success |-> FALSE, error |-> ExceptionText(response)]

\* KafkaService._create_acl_old_implementation (kafka-python).
CreateAclOldImplementation(admin_client, principal, operation, resource_type, response) ==
    IF ~admin_client THEN NotInitialized
    ELSE IF InvalidAcl(operation, resource_type) # None
    THEN InvalidAcl(operation, resource_type)[1]
    ELSE CASE response = "created" ->
                [success |-> TRUE,
                 message |-> <<"ACL", "created", "successfully", "for", principal>>]
           [] response = "SecurityDisabledError" ->
                [success |-> FALSE,
                 error |-> <<"ACL", "authorization", "is", "not", "enabled", "on", "the",
                             "Kafka", "cluster", ".", "Please", "enable", "the",
                             "authorizer", "to", "use", "ACLs", ".">>]
           [] response = "UnknownError" ->
                [success |-> FALSE,
                 error |-> <<"ACL", "creation", "failed", ".", "This", "usually", "means",
                             "ACL", "authorization", "is", "not", "enabled", "on", "the",
                             "Kafka", "cluster", ".">>]
           [] response = "no_futures" ->
                [success |-> FALSE,
                 error |-> <<"ACL", "creation", "not", "supported", "by", "current",
                             "admin", "client", ".", "Use", "confluent-kafka",
                             "AdminClient", ".">>]
           [] OTHER -> [success |-> FALSE, error |-> ExceptionText(response)]

\* KafkaService.create_acl: confluent-kafka when its client exists, else the
\* kafka-python fallback.
CreateAcl(admin_client, confluent_admin_client, details, response) ==
    IF confluent_admin_client
    THEN CreateAclConfluent(details.principal, details.operation,
                            details.resource_type, response)
    ELSE CreateAclOldImplementation(admin_client, details.principal, details.operation,
                                    details.resource_type, response)

\* What the cluster may answer to a create call through a live client: the
\* outcome its state dictates, or a failure of the connection. The cluster is
\* not the portal's alone: a topic nobody created here may exist already, and
\* whether an authorizer is configured shows with the first ACL call answered.
TopicResponses(topic_name) ==
    (IF topic_name \in topics THEN {"TopicAlreadyExistsError"}
     ELSE {"created", "TopicAlreadyExistsError"})
        \cup {"KafkaTimeoutError", "KafkaConnectionError"}
ConfluentAclResponses ==
    (CASE authorizer = "enabled" -> {"created"}
       [] authorizer = "disabled" -> {"SECURITY_DISABLED"}
       [] OTHER -> {"created", "SECURITY_DISABLED"})
        \cup {"TimeoutError", "_TRANSPORT"}
OldAclResponses ==
    (CASE authorizer = "enabled" -> {"created"}
       [] authorizer = "disabled" -> {"SecurityDisabledError"}
       [] OTHER -> {"created", "SecurityDisabledError"})
        \cup {"UnknownError", "no_futures", "KafkaTimeoutError"}

\* The cluster after it gave that answer.
TopicsAfter(topic_name, response) ==
    IF response \in {"created", "TopicAlreadyExistsError"}
    THEN topics \cup {topic_name} ELSE topics
AclsAfter(binding, response) ==
    IF response = "created" THEN acls \cup {binding} ELSE acls
AuthorizerAfter(response) ==
    CASE response = "created" -> "enabled"
      [] response \in {"SECURITY_DISABLED", "SecurityDisabledError"} -> "disabled"
      [] OTHER -> authorizer

\* ------------------------------------------------------------ AuthService
\* settings.SECRET_KEY, the key tokens are signed with.
SecretKey == "SECRET_KEY"

\* A bearer token: the sub claim (absent in a payload without one), the key
\* that signed it and whether its exp lies in the past.
\* AuthService.create_access_token signs {"sub": username, "exp": ...}.
CreateAccessToken(username) ==
    [sub |-> Some(username), key |-> SecretKey, expired |-> FALSE]

\* AuthService.verify_token: the payload, or None where jwt.decode raises
\* JWTError (wrong signature, expired) and the code answers 401.
VerifyToken(token) ==
    IF token.key = SecretKey /\ ~token.expired THEN Some([sub |-> token.sub]) ELSE None

\* The outcome of a dependency: the user it yields, or the status it raises.
Yields(username) == [status_code |-> "ok", user |-> Some(username)]
Raises(status_code) == [status_code |-> status_code, user |-> None]

\* get_current_user: 401 for a token that does not verify, for a payload
\* without sub and for an unknown user; 403 for an inactive one.
GetCurrentUser(token) ==
    LET payload == VerifyToken(token)
    IN IF payload = None THEN Raises("401")
       ELSE IF payload[1].sub = None THEN Raises("401")
       ELSE IF payload[1].sub[1] \notin DOMAIN users THEN Raises("401")
       ELSE IF ~users[payload[1].sub[1]].is_active THEN Raises("403")
       ELSE Yields(payload[1].sub[1])

\* Mutant: any authenticated user passes as admin.
GetCurrentAdminUserWithoutAdminTest(token) == GetCurrentUser(token)

\* get_current_admin_user: the current user, 403 unless is_admin.
GetCurrentAdminUser(token) ==
    LET current_user == GetCurrentUser(token)
    IN IF current_user.status_code # "ok" THEN current_user
       ELSE IF ~users[current_user.user[1]].is_admin THEN Raises("403")
       ELSE current_user

\* The tokens callers may present: those issued to an administrator, to a
\* plain user, to an inactive account and to a user the table does not hold,
\* a token signed with another key and one whose payload has no sub.
CallerTokens ==
    {CreateAccessToken(u) : u \in {"admin1", "alice", "carol", "mallory"}}
        \cup {[CreateAccessToken("admin1") EXCEPT !.key = "another key"],
              [CreateAccessToken("admin1") EXCEPT !.sub = None]}

\* The submitters of SpecAuth: a plain user and an inactive account.
SubmitterTokens == {CreateAccessToken(u) : u \in {"alice", "carol"}}

\* What the token and the users table say about the caller when a call
\* starts, kept with the call for the properties about authorization.
CallerFacts(token) ==
    LET known == token.sub # None /\ token.sub[1] \in DOMAIN users
    IN [verified |-> token.key = SecretKey /\ ~token.expired,
        known |-> known,
        is_active |-> known /\ users[token.sub[1]].is_active,
        is_admin |-> known /\ users[token.sub[1]].is_admin]

\* A call refused by its dependency: the handler does not run.
Refuse(w, op, request_id, token, status_code) ==
    Finish(w, [IdleCall EXCEPT !.op = op, !.request_id = request_id,
                               !.caller = CallerFacts(token)],
           status_code)

\* ----------------------------------------------------------------- Submit
\* dict.get(key) on a JSON object: the value, or None.
GetOpt(d, key) == IF key \in DOMAIN d THEN Some(d[key]) ELSE None

\* Mutant: every submission is logged as a topic request.
CreatedActionAlwaysTopic(endpoint) == "TOPIC_REQUEST_CREATED"

\* The action label each endpoint logs.
CreatedAction(endpoint) ==
    IF endpoint = "topic" THEN "TOPIC_REQUEST_CREATED" ELSE "ACL_REQUEST_CREATED"

\* The details each endpoint logs of the submission.
CreatedDetails(endpoint, body) ==
    IF endpoint = "topic"
    THEN [request_type |-> "TOPIC", topic_name |-> GetOpt(body.details, "topic_name"),
          rationale |-> body.rationale]
    ELSE [request_type |-> "ACL", topic_name |-> GetOpt(body.details, "topic_name"),
          permission |-> GetOpt(body.details, "permission"),
          rationale |-> body.rationale]

\* routes/requests.py create_topic_request / create_acl_request up to and
\* including RequestService.create_request. FastAPI validates the body
\* against RequestCreate before the handler runs (422). In the handler the
\* HTTPException(400) for a kind that is not the endpoint's is raised inside
\* the try block and caught by `except Exception`, which answers 500.
\* Otherwise the row is inserted and committed.
SubmitCreate(w, token, endpoint, body) ==
    /\ Free(w)
    /\ calls_left' = calls_left - 1
    /\ LET current_user == GetCurrentUser(token)
           user == current_user.user[1]
           c == [IdleCall EXCEPT !.op = "submit", !.user = user, !.endpoint = endpoint,
                                 !.request_type = body.request_type,
                                 !.caller = CallerFacts(token)]
       IN IF current_user.status_code # "ok"
          THEN /\ Refuse(w, "submit", 0, token, current_user.status_code)
               /\ UNCHANGED <<requests, now>>
          ELSE IF ~RequestCreate(body)
          THEN /\ Finish(w, c, "422")
               /\ UNCHANGED <<requests, now>>
          ELSE IF body.request_type # EndpointType(endpoint)
          THEN /\ Finish(w, c, "500")
               /\ UNCHANGED <<requests, now>>
          ELSE /\ Len(requests) < MaxRequests
               /\ requests' = Append(requests, NewRequest(user, body))
               /\ now' = now + 1
               /\ Continue(w, [c EXCEPT !.request_id = Len(requests) + 1,
                                        !.loaded = Some(requests'[Len(requests) + 1]),
                                        !.committed = TRUE],
                           "submit_audit")
    /\ UNCHANGED <<users, audit_logs, cluster, logs>>

\* The audit entry of the submission, then the response. log_action commits
\* on its own: when the store fails it, the exception ends the call with 500
\* and the request committed before stays.
SubmitAudit(w) ==
    /\ pc[w] = "submit_audit"
    /\ LET c == call[w]
           row == c.loaded[1]
           body == Body(row.request_type, row.details, row.rationale)
       IN \E stored \in BOOLEAN :
            IF stored
            THEN /\ audit_logs' = LogAction(
                        AuditEntry(c.user, CreatedAction(c.endpoint), "REQUEST",
                                   c.request_id, CreatedDetails(c.endpoint, body)))
                 /\ now' = now + 1
                 /\ Finish(w, [c EXCEPT !.audited = TRUE], "200")
            ELSE /\ Finish(w, c, "500")
                 /\ UNCHANGED <<audit_logs, now>>
    /\ UNCHANGED <<users, requests, cluster, calls_left, logs>>

\* ---------------------------------------------------------------- Approve
\* Mutant: the route lets a request of any status through.
RouteFindsAny(row) == row # None

\* routes/admin.py line 106 (negated): the request exists and is PENDING.
RouteFindsPending(row) == row # None /\ row[1].status = "PENDING"

\* Mutant: only an absent reason counts as missing, an empty one passes.
ReasonMissingOnlyWhenAbsent(reason) == reason = None

\* Mutant: the service forgets the status test.
ServiceFindsAny(row) == row # None

\* request_service.py: `if request and request.status == RequestStatus.PENDING`.
ServiceFindsPending(row) == row # None /\ row[1].status = "PENDING"

\* Mutant: "already exists" is missing from the texts that let approval proceed.
SoftFailurePatternsWithoutAlreadyExists ==
    {<<"acl", "authorization">>, <<"acl", "creation", "failed">>}

\* The error texts after which approval still proceeds (admin.py 160-162).
SoftFailurePatterns ==
    {<<"already", "exists">>, <<"acl", "authorization">>, <<"acl", "creation", "failed">>}

\* Mutant: the Kafka result is never read.
ProvisioningFailedNever(kafka_result) == FALSE

\* admin.py 157-166: the Kafka result makes the handler raise HTTP 500.
ProvisioningFailed(kafka_result) ==
    /\ kafka_result # None
    /\ ~Get(kafka_result[1], "success", TRUE)
    /\ LET error_msg == Get(kafka_result[1], "error", <<>>)
       IN \A pattern \in SoftFailurePatterns : ~Contains(Lower(error_msg), pattern)

\* Flags of a call at its start, for the properties about calls in sequence.
StartedCall(op, request_id, user, reason) ==
    [IdleCall EXCEPT !.op = op, !.request_id = request_id, !.user = user,
                     !.reason = reason,
                     !.after_commit =
                         \E i \in 1..Len(commit_log) :
                             /\ commit_log[i].request_id = request_id
                             /\ commit_log[i].op \in {"approve", "reject"},
                     !.after_decide = request_id \in decided,
                     !.pending_at_start = RouteFindsPending(RowById(request_id)),
                     !.terminal_at_start =
                         /\ request_id \in 1..Len(requests)
                         /\ requests[request_id].status
                                \in {"APPROVED", "REJECTED", "CANCELLED"},
                     !.after_hard_failure =
                         \E i \in 1..Len(prov_log) :
                             /\ prov_log[i].request_id = request_id
                             /\ prov_log[i].failed,
                     \* a create call made the resource and the call that
                     \* made it has ended without committing
                     !.after_partial_failure =
                         /\ \E i \in 1..Len(prov_log) :
                                /\ prov_log[i].request_id = request_id
                                /\ prov_log[i].response = "created"
                         /\ ~\E i \in 1..Len(commit_log) :
                                commit_log[i].request_id = request_id
                         /\ \A v \in Workers :
                                call[v].request_id = request_id => pc[v] = "idle"]

\* approve_request up to line 110: the dependency get_current_admin_user
\* admits the caller or ends the call; KafkaService() is constructed, the
\* request is read, and a missing or non-PENDING request ends the call with
\* 404.
ApproveLoad(w, request_id, token) ==
    /\ Free(w)
    /\ calls_left' = calls_left - 1
    /\ \E ok \in BOOLEAN :
         LET current_admin == GetCurrentAdminUser(token)
             clients == InitAdminClient(ok)
             row == RowById(request_id)
             c == [StartedCall("approve", request_id, current_admin.user[1], None)
                       EXCEPT !.loaded = row, !.caller = CallerFacts(token)]
         IN IF current_admin.status_code # "ok"
            THEN Refuse(w, "approve", request_id, token, current_admin.status_code)
            ELSE IF RouteFindsPending(row)
            THEN Continue(w, [c EXCEPT !.admin_client = clients.admin_client,
                                       !.confluent_admin_client =
                                           clients.confluent_admin_client],
                          "approve_provision")
            ELSE Finish(w, c, "404")
    /\ UNCHANGED <<users, store, cluster, logs>>

\* The library responses possible for this call.
Responses(c) ==
    LET row == c.loaded[1]
    IN IF row.request_type = "TOPIC"
       THEN IF c.admin_client THEN TopicResponses(row.details.topic_name)
            ELSE {"not_called"}
       ELSE IF c.confluent_admin_client THEN ConfluentAclResponses
            ELSE IF c.admin_client THEN OldAclResponses
            ELSE {"not_called"}

\* The result dictionary of create_topic / create_acl for the loaded request.
KafkaResult(c, response) ==
    LET row == c.loaded[1]
    IN IF row.request_type = "TOPIC"
       THEN CreateTopic(c.admin_client, row.details.topic_name, response)
       ELSE CreateAcl(c.admin_client, c.confluent_admin_client, row.details, response)

\* admin.py 114-154, the 400 answers: a payload without its required fields.
PayloadIncomplete(row) ==
    IF row.request_type = "TOPIC"
    THEN Get(row.details, "topic_name", "") = ""
    ELSE \E k \in {"principal", "operation", "resource_type", "resource_name"} :
            Get(row.details, k, "") = ""

\* Mutant: the handler calls the cluster again by itself after a failure.
RetryAfterFailure(w, c) == Continue(w, c, "approve_provision")

\* admin.py 162-166: a failed create call raises the HTTPException, which
\* passes the handler's except HTTPException clause (214-215): the call ends
\* with 500 and nothing calls the cluster again.
RaiseAfterFailure(w, c) == Finish(w, c, "500")

\* approve_request lines 112-166: the create call on the cluster and the
\* reading of its result.
ApproveProvision(w) ==
    /\ pc[w] = "approve_provision"
    /\ LET c == call[w]
           row == c.loaded[1]
       IN IF PayloadIncomplete(row)
          THEN /\ Finish(w, c, "400")
               /\ UNCHANGED <<cluster, prov_log>>
          ELSE \E response \in Responses(c) :
                 LET result == KafkaResult(c, response)
                     d == [c EXCEPT !.broker_response = response,
                                    !.kafka_result = Some(result)]
                 IN /\ IF row.request_type = "TOPIC"
                       THEN /\ topics' = TopicsAfter(row.details.topic_name, response)
                            /\ UNCHANGED <<acls, authorizer>>
                       ELSE /\ acls' = AclsAfter(row.details, response)
                            /\ authorizer' = AuthorizerAfter(response)
                            /\ UNCHANGED topics
                    /\ prov_log' = Append(prov_log,
                           [request_id |-> c.request_id, response |-> response,
                            failed |-> ProvisioningFailed(Some(result))])
                    /\ IF ProvisioningFailed(Some(result))
                       THEN RaiseAfterFailure(w, d)
                       ELSE Continue(w, d, "approve_commit")
    /\ UNCHANGED <<users, store, calls_left, commit_log>>

\* Mutant: the UPDATE stamps the creation time anew.
ApprovedRowStampedAnew(row, admin_user_id) ==
    [row EXCEPT !.status = "APPROVED", !.admin_user_id = Some(admin_user_id),
                !.created_at = Some(now)]

\* request_service.py 75-76: the columns approve_request assigns; the UPDATE
\* of the flush writes these and no other.
ApprovedRow(row, admin_user_id) ==
    [row EXCEPT !.status = "APPROVED", !.admin_user_id = Some(admin_user_id)]

\* RequestService.approve_request. The session already holds the row read at
\* admin.py 105: Query.first() returns that instance from the identity map
\* without refreshing its attributes, so the status tested is the one read
\* then. The flush writes the changed columns only; refresh() reads the row
\* back. A None result ends the call with 404 (admin.py 171-175).
ApproveCommit(w) ==
    /\ pc[w] = "approve_commit"
    /\ LET c == call[w]
           id == c.request_id
       IN IF ServiceFindsPending(c.loaded)
          THEN /\ requests' = [requests EXCEPT ![id] = ApprovedRow(requests[id], c.user)]
               /\ commit_log' = Append(commit_log,
                      [request_id |-> id, op |-> "approve", user |-> c.user,
                       from |-> requests[id].status])
               /\ Continue(w, [c EXCEPT !.loaded = Some(requests'[id]),
                                        !.committed = TRUE],
                           "approve_audit")
          ELSE /\ Finish(w, c, "404")
               /\ UNCHANGED <<requests, commit_log>>
    /\ UNCHANGED <<users, audit_logs, now, cluster, calls_left, prov_log>>

\* RequestService.approve_request when the store fails the commit of line
\* 77: the exception passes to the handler's `except Exception` (admin.py
\* 216-220), the call ends with 500 and the row stays as the store holds it;
\* what the create call made on the cluster stays too.
ApproveCommitFails(w) ==
    /\ pc[w] = "approve_commit"
    /\ ServiceFindsPending(call[w].loaded)
    /\ Finish(w, call[w], "500")
    /\ UNCHANGED <<users, store, cluster, calls_left, logs>>

\* admin.py 176-189: the details of the REQUEST_APPROVED entry; the Kafka
\* result is embedded when there is one.
ApprovedDetails(row, username, kafka_result) ==
    IF row.request_type = "TOPIC"
    THEN [request_type |-> row.request_type, approved_by |-> username,
          topic_name |-> GetOpt(row.details, "topic_name"),
          kafka_result |-> kafka_result]
    ELSE [request_type |-> row.request_type, approved_by |-> username,
          principal |-> GetOpt(row.details, "principal"),
          resource_name |-> GetOpt(row.details, "resource_name"),
          kafka_result |-> kafka_result]

\* admin.py 177-213: the REQUEST_APPROVED entry with the Kafka result, then
\* the response; 500 when the store fails the entry (the status committed
\* before stays).
ApproveAudit(w) ==
    /\ pc[w] = "approve_audit"
    /\ LET c == call[w]
           row == c.loaded[1]
       IN \E stored \in BOOLEAN :
            IF stored
            THEN /\ audit_logs' = LogAction(
                        AuditEntry(c.user, "REQUEST_APPROVED", "REQUEST", c.request_id,
                                   ApprovedDetails(row, c.user, c.kafka_result)))
                 /\ now' = now + 1
                 /\ Finish(w, [c EXCEPT !.audited = TRUE], "200")
            ELSE /\ Finish(w, c, "500")
                 /\ UNCHANGED <<audit_logs, now>>
    /\ UNCHANGED <<users, requests, cluster, calls_left, logs>>

\* ----------------------------------------------------------------- Reject
\* admin.py 233: `not action_request.rejection_reason`.
ReasonMissing(reason) == reason = None \/ reason = Some("")

\* reject_request (route) up to the SELECT of RequestService.reject_request:
\* the dependency get_current_admin_user admits the caller or ends the call;
\* 400 without a reason, 404 when the service finds nothing to reject.
RejectLoad(w, request_id, token, reason) ==
    /\ Free(w)
    /\ calls_left' = calls_left - 1
    /\ LET current_admin == GetCurrentAdminUser(token)
           row == RowById(request_id)
           c == [StartedCall("reject", request_id, current_admin.user[1], reason)
                     EXCEPT !.caller = CallerFacts(token)]
       IN IF current_admin.status_code # "ok"
          THEN Refuse(w, "reject", request_id, token, current_admin.status_code)
          ELSE IF ReasonMissing(reason)
          THEN Finish(w, c, "400")
          ELSE IF ServiceFindsPending(row)
          THEN Continue(w, [c EXCEPT !.loaded = row], "reject_commit")
          ELSE Finish(w, [c EXCEPT !.loaded = row], "404")
    /\ UNCHANGED <<users, store, cluster, logs>>

\* RequestService.reject_request from the assignment on: the UPDATE of the
\* changed columns, the commit and the refresh.
RejectCommit(w) ==
    /\ pc[w] = "reject_commit"
    /\ LET c == call[w]
           id == c.request_id
       IN /\ requests' = [requests EXCEPT ![id].status = "REJECTED",
                                          ![id].admin_user_id = Some(c.user),
                                          ![id].rejection_reason = c.reason]
          /\ commit_log' = Append(commit_log,
                 [request_id |-> id, op |-> "reject", user |-> c.user,
                  from |-> requests[id].status])
          /\ Continue(w, [c EXCEPT !.loaded = Some(requests'[id]), !.committed = TRUE],
                      "reject_audit")
    /\ UNCHANGED <<users, audit_logs, now, cluster, calls_left, prov_log>>

\* admin.py 260-265: the details of the REQUEST_REJECTED entry.
RejectedDetails(row, username, rejection_reason) ==
    [request_type |-> row.request_type,
     topic_name |-> GetOpt(row.details, "topic_name"),
     rejected_by |-> username, rejection_reason |-> rejection_reason]

\* admin.py 254-281: the REQUEST_REJECTED entry, then the response; 500 when
\* the store fails the entry (the status committed before stays).
RejectAudit(w) ==
    /\ pc[w] = "reject_audit"
    /\ LET c == call[w]
           row == c.loaded[1]
       IN \E stored \in BOOLEAN :
            IF stored
            THEN /\ audit_logs' = LogAction(
                        AuditEntry(c.user, "REQUEST_REJECTED", "REQUEST", c.request_id,
                                   RejectedDetails(row, c.user, c.reason[1])))
                 /\ now' = now + 1
                 /\ Finish(w, [c EXCEPT !.audited = TRUE], "200")
            ELSE /\ Finish(w, c, "500")
                 /\ UNCHANGED <<audit_logs, now>>
    /\ UNCHANGED <<users, requests, cluster, calls_left, logs>>

\* ----------------------------------------------------------------- Cancel
\* request_service.py 102-104: the caller's own PENDING request.
OwnPending(row, user_id) ==
    row # None /\ row[1].user_id = user_id /\ row[1].status = "PENDING"

\* RequestService.cancel_request, its SELECT: None when there is nothing the
\* caller may cancel.
CancelLoad(w, request_id, user) ==
    /\ Free(w)
    /\ calls_left' = calls_left - 1
    /\ LET row == RowById(request_id)
           c == [StartedCall("cancel", request_id, user, None) EXCEPT !.loaded = row]
       IN IF OwnPending(row, user)
          THEN Continue(w, c, "cancel_commit")
          ELSE Finish(w, c, "None")
    /\ UNCHANGED <<users, store, cluster, logs>>

\* RequestService.cancel_request, the UPDATE of the status and the commit.
CancelCommit(w) ==
    /\ pc[w] = "cancel_commit"
    /\ LET c == call[w]
           id == c.request_id
       IN /\ requests' = [requests EXCEPT ![id].status = "CANCELLED"]
          /\ commit_log' = Append(commit_log,
                 [request_id |-> id, op |-> "cancel", user |-> c.user,
                  from |-> requests[id].status])
          /\ Finish(w, [c EXCEPT !.loaded = Some(requests'[id]), !.committed = TRUE],
                    "request")
    /\ UNCHANGED <<users, audit_logs, now, cluster, calls_left, prov_log>>

\* ------------------------------------------------------------------ Login
\* Group DNs, as sequences of their components: settings.LDAP_ADMIN_GROUP,
\* another group, and an entry that lies beneath the admin group's entry.
LdapAdminGroup == <<"cn=admins", ",", "cn=groups", ",", "cn=accounts">>
OtherGroup == <<"cn=kafka-users", ",", "cn=groups", ",", "cn=accounts">>
NestedGroup == <<"cn=auditors", ",">> \o LdapAdminGroup

\* What the directory does with one login. bind: Connection(..., auto_bind=
\* True) returns bound or unbound, or raises an LDAPException (the server is
\* unreachable, the bind is refused) or another exception. search: what
\* conn.search finds for a bound connection. memberOf: the groups of the
\* entry found, None for an entry without the attribute.
Directory(bind, search, memberOf) ==
    [bind |-> bind, search |-> search, memberOf |-> memberOf]
DirectoryAnswers ==
    {Directory(b, "none", None) : b \in {"unbound", "LDAPException", "Exception"}}
        \cup {Directory("bound", s, None) : s \in {"no_entries", "Exception"}}
        \cup {Directory("bound", "entry", m) :
                  m \in {None, Some({OtherGroup}), Some({LdapAdminGroup, OtherGroup}),
                         Some({NestedGroup})}}

\* The answers of a directory that is up and finds the user's entry with
\* its groups, or returns the connection unbound.
OrdinaryAnswers ==
    {Directory("unbound", "none", None), Directory("bound", "entry", Some({OtherGroup})),
     Directory("bound", "entry", Some({LdapAdminGroup, OtherGroup}))}

\* username.lower() == "admin"
IsAdminName(username) == Lower(<<username>>) = <<"admin">>

\* ldap_auth.py 65-98: the except clauses of authenticate. The username
\* "admin" gets a result with is_admin True (the password is never empty:
\* UserLogin requires one character); anyone else None.
FallbackResult(username) ==
    IF IsAdminName(username) THEN Some([is_admin |-> TRUE]) ELSE None

\* LDAPAuthService._get_user_info, its is_admin: False by default; with
\* memberOf, whether some group's text contains the admin group's; without
\* memberOf, and when the search raises, whether the username is "admin".
GetUserInfo(username, directory) ==
    [is_admin |->
        CASE directory.search = "Exception" -> IsAdminName(username)
          [] directory.search = "no_entries" -> FALSE
          [] directory.memberOf = None -> IsAdminName(username)
          [] OTHER -> \E group \in directory.memberOf[1] :
                          Contains(Lower(group), Lower(LdapAdminGroup))]

\* LDAPAuthService.authenticate: the user's attributes, or None.
Authenticate(username, directory) ==
    CASE directory.bind = "bound" -> Some(GetUserInfo(username, directory))
      [] directory.bind = "unbound" -> None
      [] OTHER -> FallbackResult(username)

\* What the directory itself said in one login: whether it verified the
\* credentials, and whether it reported the admin group among the user's
\* groups.
DirectoryFacts(directory) ==
    [verified |-> directory.bind = "bound",
     admin_group |-> /\ directory.bind = "bound"
                     /\ directory.search = "entry"
                     /\ directory.memberOf # None
                     /\ LdapAdminGroup \in directory.memberOf[1]]

\* The usernames that log in: one whose account exists, one without account.
LoginNames == {"alice", "erin"}

\* UserService.get_user_by_username: the row, or None.
GetUserByUsername(username) ==
    IF username \in DOMAIN users THEN Some(users[username]) ELSE None

\* login, lines 39-51: the directory is asked; without an answer the call
\* ends with 401; else the user's row is read.
LoginAuthenticate(w, username, directory) ==
    /\ Free(w)
    /\ calls_left' = calls_left - 1
    /\ LET ldap_user == Authenticate(username, directory)
           c == [IdleCall EXCEPT !.op = "login", !.user = username,
                                 !.directory = DirectoryFacts(directory),
                                 !.ldap_user = ldap_user,
                                 !.user_row = GetUserByUsername(username)]
       IN IF ldap_user = None
          THEN Finish(w, [c EXCEPT !.user_row = None], "401")
          ELSE IF c.user_row = None
          THEN Continue(w, c, "login_create")
          ELSE Continue(w, c, "login_sync")
    /\ UNCHANGED <<users, store, cluster, logs>>

\* login, lines 52-58: the first login inserts the user and commits
\* (UserService.create_user). usernames are unique: when another login has
\* inserted the user meanwhile the INSERT fails and the call ends with 500.
LoginCreate(w) ==
    /\ pc[w] = "login_create"
    /\ LET c == call[w]
       IN IF c.user \in DOMAIN users
          THEN /\ Finish(w, c, "500")
               /\ UNCHANGED users
          ELSE /\ users' = [u \in DOMAIN users \cup {c.user} |->
                               IF u = c.user THEN NewUser(c.ldap_user[1].is_admin)
                               ELSE users[u]]
               /\ Continue(w, [c EXCEPT !.user_row = Some(users'[c.user]),
                                        !.committed = TRUE],
                           "login_created_audit")
    /\ UNCHANGED <<store, cluster, calls_left, logs>>

\* login, lines 60-69 and 95-111: the USER_CREATED entry (log_action is
\* called without ip_address), then the token. When the store fails the
\* entry the call ends with 500 and the user inserted before stays.
LoginCreatedAudit(w) ==
    /\ pc[w] = "login_created_audit"
    /\ LET c == call[w]
       IN \E stored \in BOOLEAN :
            IF stored
            THEN /\ audit_logs' = LogAction(
                        [AuditEntry(c.user, "USER_CREATED", "USER", c.user,
                                    [source |-> "LDAP",
                                     is_admin |-> c.ldap_user[1].is_admin])
                            EXCEPT !.ip_address = None])
                 /\ now' = now + 1
                 /\ Finish(w, [c EXCEPT !.audited = TRUE,
                                        !.user_row = GetUserByUsername(c.user)],
                           "200")
            ELSE /\ Finish(w, c, "500")
                 /\ UNCHANGED <<audit_logs, now>>
    /\ UNCHANGED <<users, requests, cluster, calls_left, logs>>

\* login, lines 73-111, for a user read at line 49: last_login is set; when
\* the flag read differs from the directory's, is_admin is set and
\* log_action adds the USER_ROLE_UPDATED entry and commits, which writes the
\* user's changed columns in the same transaction (when the store fails it,
\* both are rolled back and the call ends with 500). Without a difference
\* db.commit() writes last_login alone. refresh() reads the row back for the
\* response.
LoginSync(w) ==
    /\ pc[w] = "login_sync"
    /\ LET c == call[w]
           is_admin == c.ldap_user[1].is_admin
       IN IF c.user_row[1].is_admin # is_admin
          THEN \E stored \in BOOLEAN :
                 IF stored
                 THEN /\ users' = [users EXCEPT ![c.user].last_login = Some(now),
                                                ![c.user].is_admin = is_admin]
                      /\ audit_logs' = LogAction(
                             [AuditEntry(c.user, "USER_ROLE_UPDATED", "USER", c.user,
                                         [is_admin |-> is_admin])
                                 EXCEPT !.ip_address = None])
                      /\ now' = now + 1
                      /\ Finish(w, [c EXCEPT !.committed = TRUE, !.audited = TRUE,
                                             !.user_row = Some(users'[c.user])],
                                "200")
                 ELSE /\ Finish(w, c, "500")
                      /\ UNCHANGED <<users, audit_logs, now>>
          ELSE /\ users' = [users EXCEPT ![c.user].last_login = Some(now)]
               /\ Finish(w, [c EXCEPT !.committed = TRUE,
                                      !.user_row = Some(users'[c.user])],
                         "200")
               /\ UNCHANGED <<audit_logs, now>>
    /\ UNCHANGED <<requests, cluster, calls_left, logs>>

\* ------------------------------------------------------------------ reads
\* Mutant: the owner is not tested.
OwnedByAnyone(row, user_id) == TRUE

\* request_service.py 37 and 46: Request.user_id == user_id.
OwnedBy(row, user_id) == row.user_id = user_id

\* Mutant: the status is not tested.
AnyStatus(row) == TRUE

\* request_service.py 62: Request.status == RequestStatus.PENDING.
IsPending(row) == row.status = "PENDING"

\* .order_by(Request.created_at.desc()).all(): the orders in which the store
\* may return the rows with these ids, newest first; rows created at the
\* same time come in any order.
RECURSIVE OrderByCreatedAtDesc(_)
OrderByCreatedAtDesc(ids) ==
    IF ids = {} THEN {<<>>}
    ELSE LET newest == {id \in ids : \A other \in ids :
                           requests[id].created_at[1] >= requests[other].created_at[1]}
         IN UNION {{<<id>> \o rest : rest \in OrderByCreatedAtDesc(ids \ {id})} :
                      id \in newest}

\* The list of RequestResponse built from the rows in that order.
ResponseList(ids) == [i \in 1..Len(ids) |-> [id |-> ids[i], request |-> requests[ids[i]]]]

\* A read takes no part of the budget of calls: it changes nothing that a
\* later call could tell.
FreeToRead(w) == pc[w] = "idle" /\ \A v \in Workers : v < w => pc[v] # "idle"

\* The call of a read that was admitted.
ReadCall(op, request_id, token, user) ==
    [IdleCall EXCEPT !.op = op, !.request_id = request_id, !.user = user,
                     !.caller = CallerFacts(token)]

\* RequestService.get_user_requests.
UserRequests(user_id) ==
    OrderByCreatedAtDesc({id \in 1..Len(requests) : OwnedBy(requests[id], user_id)})

\* RequestService.get_pending_requests.
PendingRequests ==
    OrderByCreatedAtDesc({id \in 1..Len(requests) : IsPending(requests[id])})

\* RequestService.get_all_requests.
AllRequests == OrderByCreatedAtDesc(1..Len(requests))

\* RequestService.get_user_request_by_id: the caller's row with that id, or
\* None.
UserRequestById(user_id, request_id) ==
    IF request_id \in 1..Len(requests) /\ OwnedBy(requests[request_id], user_id)
    THEN Some(requests[request_id]) ELSE None

\* routes/requests.py get_user_requests: GET /api/requests/.
GetUserRequests(w, token) ==
    /\ FreeToRead(w)
    /\ LET current_user == GetCurrentUser(token)
       IN IF current_user.status_code # "ok"
          THEN Refuse(w, "get_user_requests", 0, token, current_user.status_code)
          ELSE \E ids \in UserRequests(current_user.user[1]) :
                 Finish(w, [ReadCall("get_user_requests", 0, token, current_user.user[1])
                               EXCEPT !.result = ResponseList(ids)],
                        "200")
    /\ UNCHANGED <<users, store, cluster, calls_left, logs>>

\* routes/requests.py get_user_request_by_id: GET /api/requests/{request_id};
\* 404 when the service finds nothing.
GetUserRequestById(w, token, request_id) ==
    /\ FreeToRead(w)
    /\ LET current_user == GetCurrentUser(token)
           user == current_user.user[1]
       IN IF current_user.status_code # "ok"
          THEN Refuse(w, "get_user_request_by_id", request_id, token,
                      current_user.status_code)
          ELSE IF UserRequestById(user, request_id) = None
          THEN Finish(w, ReadCall("get_user_request_by_id", request_id, token, user),
                      "404")
          ELSE Finish(w, [ReadCall("get_user_request_by_id", request_id, token, user)
                             EXCEPT !.result = ResponseList(<<request_id>>)],
                      "200")
    /\ UNCHANGED <<users, store, cluster, calls_left, logs>>

\* routes/admin.py get_all_requests: GET /api/admin/requests.
GetAllRequests(w, token) ==
    /\ FreeToRead(w)
    /\ LET current_admin == GetCurrentAdminUser(token)
       IN IF current_admin.status_code # "ok"
          THEN Refuse(w, "get_all_requests", 0, token, current_admin.status_code)
          ELSE \E ids \in AllRequests :
                 Finish(w, [ReadCall("get_all_requests", 0, token, current_admin.user[1])
                               EXCEPT !.result = ResponseList(ids)],
                        "200")
    /\ UNCHANGED <<users, store, cluster, calls_left, logs>>

\* routes/admin.py get_pending_requests: GET /api/admin/requests/pending.
GetPendingRequests(w, token) ==
    /\ FreeToRead(w)
    /\ LET current_admin == GetCurrentAdminUser(token)
       IN IF current_admin.status_code # "ok"
          THEN Refuse(w, "get_pending_requests", 0, token, current_admin.status_code)
          ELSE \E ids \in PendingRequests :
                 Finish(w, [ReadCall("get_pending_requests", 0, token,
                                     current_admin.user[1])
                               EXCEPT !.result = ResponseList(ids)],
                        "200")
    /\ UNCHANGED <<users, store, cluster, calls_left, logs>>

\* The tables the reads are run on: up to MaxStored rows of either user and
\* of every status, inserted one after the other (the clock advances with
\* every insert, as in SubmitCreate). A decided row holds what
\* RequestService.approve_request / reject_request wrote.
StoredRow(user_id, request_status, created_at) ==
    [NewRequest(user_id, Body("TOPIC", TopicDetails, Some(10)))
        EXCEPT !.created_at = Some(created_at),
               !.status = request_status,
               !.admin_user_id =
                   IF request_status \in {"APPROVED", "REJECTED"}
                   THEN Some("admin1") ELSE None,
               !.rejection_reason =
                   IF request_status = "REJECTED" THEN Some("duplicate") ELSE None]
StoredTables(n) ==
    {[id \in 1..n |-> StoredRow(owner[id], request_status[id], id)] :
        owner \in [1..n -> Users], request_status \in [1..n -> RequestStatuses]}

\* The tokens of the readers: a plain user and an administrator.
ReaderTokens == {CreateAccessToken(u) : u \in {"alice", "admin1"}}

\* ================================================================ properties
\* The call a worker holds has returned its response.
Finished(w) == pc[w] = "idle" /\ call[w].op # "none"
DecideOps == {"approve", "reject"}

\* What a create call on the cluster came to, by the library response.
SuccessResponses == {"created"}
AlreadyExistsResponses == {"TopicAlreadyExistsError"}
AuthorizationUnsupportedResponses == {"SECURITY_DISABLED", "SecurityDisabledError"}
HardFailureResponses ==
    {"not_called", "KafkaTimeoutError", "KafkaConnectionError", "TimeoutError",
     "_TRANSPORT"}

CommitsOn(id) == {i \in 1..Len(commit_log) : commit_log[i].request_id = id}
DecideCommitsOn(id) == {i \in CommitsOn(id) : commit_log[i].op \in DecideOps}
CreateCallsFor(id) == {i \in 1..Len(prov_log) : prov_log[i].request_id = id}

\* C1: at most one approve / reject call commits a status transition on a
\* request, whatever the interleaving of the calls made on it.
C1_AtMostOneDecision ==
    \A id \in RequestIds : Cardinality(DecideCommitsOn(id)) <= 1

\* C2: the provisioner's create operation runs again for a request only after
\* an attempt for it that failed hard (the approve call answered 500).
C2_NoDoubleProvisioning ==
    \A id \in RequestIds : \A i, j \in CreateCallsFor(id) :
        (i < j /\ ~\E k \in CreateCallsFor(id) : i < k /\ k < j) => prov_log[i].failed

\* C3: an APPROVED request has had a create call made for it that returned
\* success, "already exists" or "authorization unsupported".
C3_ApprovedWasProvisioned ==
    \A id \in 1..Len(requests) :
        requests[id].status = "APPROVED" =>
            \E i \in CreateCallsFor(id) :
                prov_log[i].response \in
                    SuccessResponses \cup AlreadyExistsResponses
                        \cup AuthorizationUnsupportedResponses

C3_Witness ==
    \E id \in 1..Len(requests) :
        /\ requests[id].status = "APPROVED"
        /\ \E w \in Workers :
             /\ Finished(w) /\ call[w].op = "approve" /\ call[w].request_id = id
             /\ call[w].status_code = "200"

\* C4: an approve call whose create call failed hard (connection, timeout,
\* client not initialised) answers 500 and has written neither the request
\* nor an audit entry.
C4_HardFailureChangesNothing ==
    \A w \in Workers :
        (call[w].op = "approve" /\ call[w].broker_response \in HardFailureResponses) =>
            /\ pc[w] = "idle"
            /\ call[w].status_code = "500"
            /\ ~call[w].committed
            /\ ~call[w].audited
            /\ CommitsOn(call[w].request_id) = {} =>
                   /\ requests[call[w].request_id] = call[w].loaded[1]
                   /\ requests[call[w].request_id].status = "PENDING"

C4_Witness ==
    \E w \in Workers :
        /\ Finished(w) /\ call[w].op = "approve"
        /\ call[w].broker_response \in HardFailureResponses
        /\ call[w].status_code = "500"
        /\ requests[call[w].request_id].status = "PENDING"

\* C5: an approve call on a PENDING request whose create call answered
\* "already exists" commits APPROVED.
C5_AlreadyExistsStillApproves ==
    \A w \in Workers :
        (call[w].op = "approve" /\ call[w].broker_response \in AlreadyExistsResponses) =>
            /\ pc[w] \in {"approve_commit", "approve_audit", "idle"}
            /\ pc[w] # "approve_commit" =>
                   /\ call[w].committed
                   /\ call[w].loaded[1].status = "APPROVED"
                   /\ call[w].status_code \notin {"404", "400"}
            /\ ~ProvisioningFailed(call[w].kafka_result)

C5_Witness ==
    \E w \in Workers :
        /\ Finished(w) /\ call[w].op = "approve"
        /\ call[w].broker_response \in AlreadyExistsResponses
        /\ call[w].status_code = "200"
        /\ requests[call[w].request_id].status = "APPROVED"

\* C6: an approve call on an ACL request whose create call found authorization
\* unsupported on the cluster is not answered 500: it proceeds to APPROVED,
\* whichever client made the call.
C6_AuthorizationUnsupportedApproves ==
    \A w \in Workers :
        (/\ call[w].op = "approve"
         /\ call[w].broker_response \in AuthorizationUnsupportedResponses) =>
            call[w].status_code # "500"

\* C7: once a request is APPROVED, REJECTED or CANCELLED, no step changes any
\* of its fields.
C7_TerminalIsFrozen ==
    [][\A id \in 1..Len(requests) :
          requests[id].status # "PENDING" => requests'[id] = requests[id]]_vars

\* C8: approved_at is set iff the status is APPROVED, rejected_at iff it is
\* REJECTED.
C8_TimestampsMatchStatus ==
    \A id \in 1..Len(requests) :
        /\ requests[id].approved_at # None <=> requests[id].status = "APPROVED"
        /\ requests[id].rejected_at # None <=> requests[id].status = "REJECTED"

\* C9: the deciding admin is set iff the status is APPROVED or REJECTED, and a
\* non-empty rejection reason iff it is REJECTED.
C9_AdminAndReasonMatchStatus ==
    \A id \in 1..Len(requests) :
        /\ requests[id].admin_user_id # None
               <=> requests[id].status \in {"APPROVED", "REJECTED"}
        /\ requests[id].rejection_reason \notin {None, Some("")}
               <=> requests[id].status = "REJECTED"

\* C10, as the specification states it: an approve / reject call made after another approve /
\* reject call that found the same request has returned always fails with
\* 404 and writes nothing.
C10_SecondDecideAlwaysFails ==
    \A w \in Workers :
        (Finished(w) /\ call[w].op \in DecideOps /\ call[w].after_decide) =>
            /\ call[w].status_code = "404"
            /\ ~call[w].committed
            /\ ~call[w].audited

\* C10, amended: an approve / reject call made after an approve / reject call
\* has committed its decision on the same request fails at once (404, or 400
\* for a reject without a reason), makes no create call, commits nothing and
\* appends no audit entry.
C10_DecideAfterCommittedDecideFails ==
    \A w \in Workers :
        (call[w].op \in DecideOps /\ call[w].after_commit) =>
            /\ pc[w] = "idle"
            /\ call[w].status_code =
                   IF call[w].op = "reject" /\ ReasonMissing(call[w].reason)
                   THEN "400" ELSE "404"
            /\ call[w].broker_response = "none"
            /\ ~call[w].committed
            /\ ~call[w].audited

C10_Witness ==
    \E w \in Workers :
        /\ Finished(w) /\ call[w].op \in DecideOps /\ call[w].after_commit
        /\ call[w].status_code = "404"
        /\ Cardinality(DecideCommitsOn(call[w].request_id)) = 1

\* C11: an approve / reject call on a request id that is absent or not
\* PENDING when the call starts answers 404, makes no create call, commits
\* nothing and appends no audit entry.
C11_DecideOnNonPendingIsNotFound ==
    \A w \in Workers :
        (call[w].op \in DecideOps /\ ~call[w].pending_at_start) =>
            /\ pc[w] = "idle"
            /\ call[w].status_code = "404"
            /\ call[w].broker_response = "none"
            /\ ~call[w].committed
            /\ ~call[w].audited

\* C12: a reject call whose rejection reason is absent or empty ends at once
\* with 400; the step leaves every request and the audit log as they were.
C12_RejectWithoutReasonIsInvalid ==
    [][\A w \in Workers :
          (/\ Free(w) /\ calls_left' # calls_left
           /\ call'[w].op = "reject"
           /\ call'[w].reason \in {None, Some("")}) =>
              /\ pc'[w] = "idle"
              /\ call'[w].status_code = "400"
              /\ ~call'[w].committed
              /\ ~call'[w].audited
              /\ requests' = requests
              /\ audit_logs' = audit_logs
              /\ prov_log' = prov_log]_vars

C12_Witness ==
    \E w \in Workers :
        /\ Finished(w) /\ call[w].op = "reject"
        /\ call[w].reason \in {None, Some("")}
        /\ call[w].status_code = "400"
        /\ call[w].pending_at_start
        /\ requests[call[w].request_id].status = "PENDING"

\* C13: a submission that did not answer 200 (its audit entry could not be
\* stored) has left no request in the store.
C13_FailedSubmitPersistsNothing ==
    \A w \in Workers :
        (Finished(w) /\ call[w].op = "submit" /\ call[w].status_code # "200") =>
            ~call[w].committed

\* C14: after an approve / reject call whose audit entry could not be stored,
\* the request is PENDING with no deciding admin and no rejection reason.
C14_FailedAuditRollsBackDecision ==
    \A w \in Workers :
        (/\ Finished(w) /\ call[w].op \in DecideOps
         /\ call[w].committed /\ ~call[w].audited) =>
            /\ requests[call[w].request_id].status = "PENDING"
            /\ requests[call[w].request_id].admin_user_id = None
            /\ requests[call[w].request_id].rejection_reason = None

CreatedLabels == {"TOPIC_REQUEST_CREATED", "ACL_REQUEST_CREATED"}
EntriesFor(log, id, labels) ==
    {i \in 1..Len(log) : log[i].entity_id = id /\ log[i].action \in labels}

\* C15: the step of a submission that inserts the request adds exactly one
\* row, PENDING, owned by the caller, with no deciding admin, rejection reason,
\* approval or rejection time, and changes no other row; the step that
\* completes it with 200 appends exactly one audit entry, for that request,
\* labelled TOPIC_REQUEST_CREATED or ACL_REQUEST_CREATED after its kind; a
\* submission that ends without inserting writes nothing; no request ever
\* has two such entries.
C15_SubmitCreatesOnePendingRequest ==
    [][\A w \in Workers :
          /\ (pc[w] = "idle" /\ pc'[w] = "submit_audit") =>
                 /\ Len(requests') = Len(requests) + 1
                 /\ \A id \in 1..Len(requests) : requests'[id] = requests[id]
                 /\ call'[w].request_id = Len(requests')
                 /\ requests'[Len(requests')].status = "PENDING"
                 /\ requests'[Len(requests')].user_id = call'[w].user
                 /\ requests'[Len(requests')].admin_user_id = None
                 /\ requests'[Len(requests')].rejection_reason = None
                 /\ requests'[Len(requests')].approved_at = None
                 /\ requests'[Len(requests')].rejected_at = None
                 /\ audit_logs' = audit_logs
          /\ (pc[w] = "submit_audit" /\ pc'[w] = "idle"
                  /\ call'[w].status_code = "200") =>
                 /\ requests' = requests
                 /\ Len(audit_logs') = Len(audit_logs) + 1
                 /\ \A i \in 1..Len(audit_logs) : audit_logs'[i] = audit_logs[i]
                 /\ audit_logs'[Len(audit_logs')].entity_id = call[w].request_id
                 /\ audit_logs'[Len(audit_logs')].user_id = call[w].user
                 /\ audit_logs'[Len(audit_logs')].action =
                        IF requests[call[w].request_id].request_type = "TOPIC"
                        THEN "TOPIC_REQUEST_CREATED" ELSE "ACL_REQUEST_CREATED"
          /\ (Free(w) /\ calls_left' # calls_left /\ call'[w].op = "submit"
                  /\ pc'[w] = "idle") =>
                 (requests' = requests /\ audit_logs' = audit_logs)
          /\ \A id \in 1..Len(requests') :
                 Cardinality(EntriesFor(audit_logs', id, CreatedLabels)) <= 1]_vars

C15_Witness ==
    \E w \in Workers :
        /\ Finished(w) /\ call[w].op = "submit" /\ call[w].status_code = "200"
        /\ requests[call[w].request_id].request_type = "ACL"
        /\ \E i \in EntriesFor(audit_logs, call[w].request_id, CreatedLabels) :
               audit_logs[i].action = "ACL_REQUEST_CREATED"

\* C16: every request in the store has the shape of its kind: a TOPIC request
\* a non-empty name made only of letters, digits, '.', '_' and '-', 1 to 100
\* partitions and a replication factor of 1 to 3; an ACL request a non-empty
\* principal, operation, resource type and resource name.
C16_PersistedPayloadHasShape ==
    \A id \in 1..Len(requests) :
        LET v == requests[id].details
        IN IF requests[id].request_type = "TOPIC"
           THEN /\ {"topic_name", "partitions", "replication_factor"} \subseteq DOMAIN v
                /\ Len(Chars(v.topic_name)) >= 1
                /\ \A i \in 1..Len(Chars(v.topic_name)) :
                       Chars(v.topic_name)[i] \in TopicNameAlphabet
                /\ v.partitions \in 1..100
                /\ v.replication_factor \in 1..3
           ELSE /\ {"principal", "operation", "resource_type", "resource_name"}
                       \subseteq DOMAIN v
                /\ v.principal # "" /\ v.operation # ""
                /\ v.resource_type # "" /\ v.resource_name # ""

\* C17: every request in the store has a rationale, of 10 to 1000 characters.
C17_PersistedRationaleWithinLimits ==
    \A id \in 1..Len(requests) :
        /\ requests[id].rationale # None
        /\ requests[id].rationale[1] \in 10..1000

\* C18: no step removes or alters an audit entry: every entry of the log is,
\* field for field, at the same place in the log after the step.
C18_AuditLogIsAppendOnly ==
    [][/\ Len(audit_logs') >= Len(audit_logs)
       /\ \A i \in 1..Len(audit_logs) : audit_logs'[i] = audit_logs[i]]_vars

C18_Witness ==
    /\ Len(audit_logs) >= 2
    /\ audit_logs[1].action \in CreatedLabels
    /\ audit_logs[2].action \in {"REQUEST_APPROVED", "REQUEST_REJECTED"}
    /\ audit_logs[2].timestamp > audit_logs[1].timestamp

NoDecideInFlight == \A w \in Workers : call[w].op \in DecideOps => pc[w] = "idle"

\* C19: while no approve / reject call is in flight, every APPROVED request
\* has exactly one REQUEST_APPROVED entry, made by the request's deciding
\* admin and carrying the Kafka result, and no other request has one.
C19_OneApprovedEntryPerApprovedRequest ==
    NoDecideInFlight =>
        \A id \in 1..Len(requests) :
            LET entries == EntriesFor(audit_logs, id, {"REQUEST_APPROVED"})
            IN IF requests[id].status = "APPROVED"
               THEN /\ Cardinality(entries) = 1
                    /\ \A i \in entries :
                           /\ Some(audit_logs[i].user_id) = requests[id].admin_user_id
                           /\ audit_logs[i].changes.kafka_result # None
               ELSE entries = {}

\* C20: while no approve / reject call is in flight, every REJECTED request
\* has exactly one REQUEST_REJECTED entry, made by the request's deciding
\* admin and carrying the request's rejection reason, and no other request
\* has one.
C20_OneRejectedEntryPerRejectedRequest ==
    NoDecideInFlight =>
        \A id \in 1..Len(requests) :
            LET entries == EntriesFor(audit_logs, id, {"REQUEST_REJECTED"})
            IN IF requests[id].status = "REJECTED"
               THEN /\ Cardinality(entries) = 1
                    /\ \A i \in entries :
                           /\ Some(audit_logs[i].user_id) = requests[id].admin_user_id
                           /\ Some(audit_logs[i].changes.rejection_reason)
                                  = requests[id].rejection_reason
               ELSE entries = {}

\* C21: every step that makes a request CANCELLED is taken by a cancel call
\* of the request's owner on a request that is PENDING at that moment, and
\* changes nothing else of the request: no deciding admin, no rejection
\* reason, no approval or rejection timestamp; no cancel call reaches the
\* cluster, and a cancel call that returns None has changed nothing.
C21_CancelOnlyOwnPending ==
    [][/\ \A id \in 1..Len(requests) :
            requests'[id].status = "CANCELLED" /\ requests[id].status # "CANCELLED"
                => /\ requests[id].status = "PENDING"
                   /\ requests'[id] = [requests[id] EXCEPT !.status = "CANCELLED"]
                   /\ \E w \in Workers :
                        /\ pc[w] = "cancel_commit" /\ pc'[w] = "idle"
                        /\ call[w].request_id = id
                        /\ call[w].user = requests[id].user_id
       /\ \A w \in Workers :
            call'[w].op = "cancel" /\ call'[w] # call[w]
                => /\ prov_log' = prov_log
                   /\ cluster' = cluster
                   /\ call'[w].status_code = "None" => store' = store]_vars

\* C28: nothing retries by itself. A step makes at most one create call; the
\* worker that makes it was about to provision and afterwards is not: its
\* call has ended or goes on to the commit; and a worker comes to provision
\* only by taking a new approve call.
C28_NoAutomaticRetry ==
    [][/\ Len(prov_log') <= Len(prov_log) + 1
       /\ Len(prov_log') = Len(prov_log) + 1
            => \E w \in Workers :
                 /\ pc[w] = "approve_provision"
                 /\ pc'[w] \in {"idle", "approve_commit"}
                 /\ prov_log'[Len(prov_log')].request_id = call[w].request_id
                 /\ \A v \in Workers \ {w} : pc'[v] = pc[v]
       /\ \A w \in Workers :
            pc'[w] = "approve_provision"
                => \/ pc[w] = "approve_provision" /\ call'[w] = call[w]
                   \/ /\ pc[w] = "idle"
                      /\ calls_left' = calls_left - 1
                      /\ call'[w].op = "approve"
                      /\ prov_log' = prov_log]_vars

\* A create call failed hard, the call ended with 500, and a new approve call
\* has called the cluster again for the same request.
C28_Witness ==
    \E i, j \in 1..Len(prov_log) :
        /\ i < j
        /\ prov_log[i].request_id = prov_log[j].request_id
        /\ prov_log[i].failed
        /\ prov_log[i].response \in HardFailureResponses

\* C30, as the specification states it: a decide call on a request that is
\* in a terminal status when the call reads it ends with a conflict error
\* (409).
C30_TerminalTransitionIsConflict ==
    \A w \in Workers :
        Finished(w) /\ call[w].op \in DecideOps /\ call[w].terminal_at_start
            => call[w].status_code = "409"

\* C30: a call that attempts a transition on a request that is in a terminal
\* status when the call reads it ends there and then, without a create call,
\* a commit or an audit entry: approve and reject answer 404 (reject without
\* a reason 400), cancel_request returns None. No call ever answers 409.
C30_TerminalTransitionIsRefused ==
    /\ \A w \in Workers :
         call[w].terminal_at_start
             => /\ pc[w] = "idle"
                /\ call[w].status_code =
                       CASE call[w].op = "cancel" -> "None"
                         [] call[w].op = "reject"
                                /\ call[w].reason \in {None, Some("")} -> "400"
                         [] OTHER -> "404"
                /\ call[w].broker_response = "none"
                /\ ~call[w].committed
                /\ ~call[w].audited
    /\ \A w \in Workers : call[w].status_code # "409"

\* A decide call has been refused with 404 on a request that was terminal
\* when the call read it.
C30_Witness ==
    \E w \in Workers :
        /\ Finished(w)
        /\ call[w].op \in DecideOps
        /\ call[w].terminal_at_start
        /\ call[w].status_code = "404"
        /\ call[w].loaded # None
        /\ call[w].loaded[1].status \in {"APPROVED", "REJECTED", "CANCELLED"}

\* C29: a request on which a create call failed is decided like any other
\* by a later approve call: when the create call of the later call comes
\* back with success, "already exists" or "authorization not supported", the
\* call goes on to the commit, and its commit makes the request APPROVED.
C29_RetryAfterHardFailureApproves ==
    [][\A w \in Workers :
         call[w].op = "approve" /\ call[w].after_hard_failure /\ pc'[w] # pc[w]
             => /\ (/\ pc[w] = "approve_provision"
                    /\ call'[w].broker_response \in
                           SuccessResponses \cup AlreadyExistsResponses
                               \cup AuthorizationUnsupportedResponses)
                       => pc'[w] = "approve_commit"
                /\ pc[w] = "approve_commit"
                       => requests'[call[w].request_id].status = "APPROVED"]_vars

\* C22: approve and reject are privileged. A decide call whose caller does
\* not present a token that verifies, is not a known user, is inactive or
\* has no admin flag ends in its first step with 401 or 403, and that step
\* changes nothing: no request, no user, no audit entry, no create call.
C22_DecideIsPrivileged ==
    [][\A w \in Workers :
         (/\ call'[w] # call[w]
          /\ call'[w].op \in DecideOps
          /\ ~(/\ call'[w].caller.verified
               /\ call'[w].caller.known
               /\ call'[w].caller.is_active
               /\ call'[w].caller.is_admin))
             => /\ pc'[w] = "idle"
                /\ call'[w].status_code \in {"401", "403"}
                /\ call'[w].loaded = None
                /\ ~call'[w].committed /\ ~call'[w].audited
                /\ UNCHANGED <<store, users, cluster, logs>>]_vars

\* An active user without the admin flag has called approve on a PENDING
\* request and has been refused with 403; the request is still PENDING.
C22_Witness ==
    \E w \in Workers :
        /\ Finished(w)
        /\ call[w].op = "approve"
        /\ call[w].caller.verified /\ call[w].caller.is_active
        /\ ~call[w].caller.is_admin
        /\ call[w].status_code = "403"
        /\ call[w].request_id \in 1..Len(requests)
        /\ requests[call[w].request_id].status = "PENDING"
        /\ prov_log = <<>>

\* C27: a call with a token that verifies but names an inactive user ends
\* with 401 and its handler does not run.
C27_InactiveUserIsUnauthorized ==
    \A w \in Workers :
        (/\ call[w].op # "none"
         /\ call[w].caller.verified /\ call[w].caller.known
         /\ ~call[w].caller.is_active)
            => /\ pc[w] = "idle"
               /\ call[w].status_code = "401"
               /\ call[w].loaded = None
               /\ ~call[w].committed /\ ~call[w].audited

\* C25: when a login of a user whose account existed answers 200, the user's
\* admin flag in the store is the one the directory reported in that login.
C25_LoginOverwritesAdminFlag ==
    [][\A w \in Workers :
         (/\ pc[w] = "login_sync" /\ pc'[w] = "idle"
          /\ call'[w].status_code = "200")
             => users'[call[w].user].is_admin = call[w].ldap_user[1].is_admin]_vars

\* C26: a login of a user whose account existed that answers 200 adds exactly
\* one USER_ROLE_UPDATED entry when its commit changes the stored admin flag,
\* and no entry when the stored flag is already the directory's.
C26_RoleEntryOnlyOnChange ==
    [][\A w \in Workers :
         (/\ pc[w] = "login_sync" /\ pc'[w] = "idle"
          /\ call'[w].status_code = "200")
             => LET added == {i \in (Len(audit_logs) + 1)..Len(audit_logs') :
                                 audit_logs'[i].action = "USER_ROLE_UPDATED"}
                IN IF users[call[w].user].is_admin # call[w].ldap_user[1].is_admin
                   THEN Cardinality(added) = 1
                   ELSE added = {}]_vars

\* C23: the list of a caller's own requests holds each request whose owner
\* is the caller once and no other, as the store holds it, newest first; and
\* a get by id of a request owned by someone else answers 404, whatever the
\* request's status.
C23_ReadsAreOwnOnly ==
    \A w \in Workers :
        /\ (Finished(w) /\ call[w].op = "get_user_requests"
                /\ call[w].status_code = "200")
               => LET result == call[w].result
                  IN /\ {result[i].id : i \in 1..Len(result)}
                            = {id \in 1..Len(requests) :
                                   requests[id].user_id = call[w].user}
                     /\ \A i, j \in 1..Len(result) :
                            i < j => /\ result[i].id # result[j].id
                                     /\ result[i].request.created_at[1]
                                            >= result[j].request.created_at[1]
                     /\ \A i \in 1..Len(result) :
                            result[i].request = requests[result[i].id]
        /\ (/\ Finished(w) /\ call[w].op = "get_user_request_by_id"
            /\ call[w].status_code \notin {"401", "403"}
            /\ call[w].request_id \in 1..Len(requests)
            /\ requests[call[w].request_id].user_id # call[w].user)
               => call[w].status_code = "404" /\ call[w].result = <<>>

\* The caller owns two of the three requests in the store, another user
\* the third, and the caller's list holds the two, the newer one first.
C23_Witness ==
    \E w \in Workers :
        /\ Finished(w)
        /\ call[w].op = "get_user_requests"
        /\ call[w].status_code = "200"
        /\ Len(call[w].result) = 2
        /\ Len(requests) = 3
        /\ call[w].result[1].request.user_id = call[w].user
        /\ call[w].result[1].request.created_at[1]
               > call[w].result[2].request.created_at[1]

\* C24: the reads change nothing: a step in which a read returns leaves
\* every request, every user, the audit log, the cluster and the budget of
\* calls as they were; and the list of pending requests holds each PENDING
\* request once and no other.
C24_ReadsChangeNothing ==
    [][\A w \in Workers :
         (/\ call'[w] # call[w]
          /\ call'[w].op \in {"get_user_requests", "get_user_request_by_id",
                              "get_all_requests", "get_pending_requests"})
             => /\ UNCHANGED <<requests, users, audit_logs, now, cluster, logs>>
                /\ pc'[w] = "idle"
                /\ (call'[w].op = "get_pending_requests"
                        /\ call'[w].status_code = "200")
                       => LET result == call'[w].result
                          IN /\ {result[i].id : i \in 1..Len(result)}
                                    = {id \in 1..Len(requests) :
                                           requests[id].status = "PENDING"}
                             /\ \A i, j \in 1..Len(result) :
                                    i < j => result[i].id # result[j].id]_vars

\* An administrator's list of pending requests holds one request while the
\* store holds others that are decided or cancelled.
C24_Witness ==
    \E w \in Workers :
        /\ Finished(w)
        /\ call[w].op = "get_pending_requests"
        /\ call[w].status_code = "200"
        /\ Len(call[w].result) = 1
        /\ {requests[id].status : id \in 1..Len(requests)}
               = {"PENDING", "APPROVED", "CANCELLED"}

\* C31: no step changes the owner, the kind, the payload, the rationale or
\* the creation time of a request in the store, whichever operation takes it
\* (approve, reject, cancel, a list, a login).
C31_SubmittedFieldsNeverChange ==
    [][\A id \in 1..Len(requests) :
          /\ requests'[id].user_id = requests[id].user_id
          /\ requests'[id].request_type = requests[id].request_type
          /\ requests'[id].details = requests[id].details
          /\ requests'[id].rationale = requests[id].rationale
          /\ requests'[id].created_at = requests[id].created_at]_vars

\* The request has been approved (status and deciding admin written), and an
\* administrator's list, read afterwards, shows it with the owner, payload,
\* rationale and creation time it was submitted with.
C31_Witness ==
    \E w \in Workers :
        /\ Finished(w)
        /\ call[w].op = "get_all_requests"
        /\ call[w].status_code = "200"
        /\ Len(call[w].result) = 1
        /\ call[w].result[1].request.status = "APPROVED"
        /\ call[w].result[1].request.admin_user_id = Some("admin1")
        /\ call[w].result[1].request.user_id = "alice"
        /\ call[w].result[1].request.created_at = Some(1)
        /\ call[w].result[1].request.rationale = Some(10)
        /\ call[w].result[1].request.details \in {TopicDetails, AclDetails}

\* C32: a reject call without a rejection reason (absent or empty) on a
\* request that is absent or not PENDING when the call starts ends with 404
\* (not found), not with 400 (validation).
C32_ExistenceIsCheckedBeforeReason ==
    \A w \in Workers :
        (/\ Finished(w) /\ call[w].op = "reject"
         /\ call[w].reason \in {None, Some("")}
         /\ ~call[w].pending_at_start)
            => call[w].status_code = "404"

\* C33: of a cancel call and an approve / reject call on the same request at
\* most one commits: no request has both a committed cancellation and a
\* committed decision (so a cancelled request is never decided afterwards
\* and a decided one never cancelled).
C33_CancelAndDecideExclude ==
    \A id \in RequestIds :
        ~\E i, j \in CommitsOn(id) :
            commit_log[i].op = "cancel" /\ commit_log[j].op \in DecideOps

\* C34: while no call is in flight, a request that is REJECTED or CANCELLED
\* has had no create call made for it that returned success.
C34_NoResourceForRejectedOrCancelled ==
    (\A w \in Workers : pc[w] = "idle") =>
        \A id \in 1..Len(requests) :
            requests[id].status \in {"REJECTED", "CANCELLED"} =>
                ~\E i \in CreateCallsFor(id) : prov_log[i].response \in SuccessResponses

\* C35: an approve call made on a PENDING request after an earlier call
\* created its resource on the cluster and ended without committing is not
\* stopped by the resource being there: when its create call reports
\* "already exists" it goes on to the commit, and its commit step makes the
\* request APPROVED (it answers neither 404 nor 400; only the store failing
\* the commit again leaves the request as it was, with 500).
C35_RetryAfterPartialFailureApproves ==
    [][\A w \in Workers :
         (/\ call[w].op = "approve" /\ call[w].after_partial_failure
          /\ pc'[w] # pc[w])
             => /\ (/\ pc[w] = "approve_provision"
                    /\ call'[w].broker_response \in AlreadyExistsResponses)
                       => pc'[w] = "approve_commit"
                /\ (/\ pc[w] = "approve_commit"
                    /\ call[w].broker_response \in AlreadyExistsResponses)
                       => \/ /\ requests'[call[w].request_id].status = "APPROVED"
                             /\ call'[w].committed
                          \/ /\ call'[w].status_code = "500"
                             /\ requests' = requests]_vars

\* The topic of a PENDING request is on the cluster, made by an approve call
\* that ended with 500 at its commit; a later approve call got "already
\* exists", answered 200 and the request is APPROVED.
C35_Witness ==
    \E w \in Workers :
        /\ Finished(w)
        /\ call[w].op = "approve"
        /\ call[w].after_partial_failure
        /\ call[w].broker_response \in AlreadyExistsResponses
        /\ call[w].status_code = "200"
        /\ requests[call[w].request_id].status = "APPROVED"
        /\ requests[call[w].request_id].details.topic_name \in topics
        /\ \E i, j \in CreateCallsFor(call[w].request_id) :
               /\ i < j
               /\ prov_log[i].response = "created"
               /\ prov_log[j].response \in AlreadyExistsResponses

\* C36: a submission whose request_type is not the kind of the endpoint it
\* is sent to ends with a 4xx answer (400, or 422 when the body is invalid
\* besides), and has stored neither a request nor an audit entry.
C36_KindMismatchIsValidationError ==
    \A w \in Workers :
        (/\ Finished(w) /\ call[w].op = "submit"
         /\ call[w].endpoint \in Endpoints
         /\ call[w].request_type # EndpointType(call[w].endpoint))
            => /\ call[w].status_code \in {"400", "422"}
               /\ ~call[w].committed
               /\ ~call[w].audited

LoginStages == {"login_create", "login_created_audit", "login_sync"}

\* C37: privilege comes only from the directory. A login whose credentials
\* the directory did not verify (it refused them, was unreachable or raised
\* an error) ends at once with 401 and leaves the users table as it was; a
\* user's admin flag becomes true only in a login of that user in which the
\* directory reported the admin group; and when a login succeeds, the user's
\* admin flag is true only if the directory reported the admin group in that
\* login.
C37_PrivilegeOnlyFromDirectory ==
    [][/\ \A w \in Workers :
            (/\ call'[w] # call[w] /\ pc[w] = "idle"
             /\ call'[w].op = "login"
             /\ ~call'[w].directory.verified)
                => /\ pc'[w] = "idle"
                   /\ call'[w].status_code = "401"
                   /\ users' = users
       /\ \A u \in DOMAIN users' :
            (users'[u].is_admin /\ (u \in DOMAIN users => ~users[u].is_admin))
                => \E w \in Workers :
                     /\ pc[w] \in LoginStages
                     /\ call[w].user = u
                     /\ call[w].directory.admin_group
       /\ \A w \in Workers :
            (/\ pc[w] \in LoginStages /\ pc'[w] = "idle"
             /\ call'[w].status_code = "200")
                => (users'[call[w].user].is_admin => call[w].directory.admin_group)]_vars

\* ------------------------------------------------------------------- Next
Next ==
    \/ \E w \in Workers, user \in Submitters, submission \in TypicalSubmissions :
           SubmitCreate(w, CreateAccessToken(user), submission.endpoint, submission.body)
    \/ \E w \in Workers : SubmitAudit(w)
    \/ \E w \in Workers, request_id \in RequestIds, admin \in Admins :
           ApproveLoad(w, request_id, CreateAccessToken(admin))
    \/ \E w \in Workers : ApproveProvision(w)
    \/ \E w \in Workers : ApproveCommit(w)
    \/ \E w \in Workers : ApproveAudit(w)
    \/ \E w \in Workers, request_id \in RequestIds, admin \in Admins,
          reason \in RejectionReasons :
           RejectLoad(w, request_id, CreateAccessToken(admin), reason)
    \/ \E w \in Workers : RejectCommit(w)
    \/ \E w \in Workers : RejectAudit(w)
    \/ \E w \in Workers, request_id \in RequestIds, user \in Users :
           CancelLoad(w, request_id, user)
    \/ \E w \in Workers : CancelCommit(w)

Spec == Init /\ [][Next]_vars

\* Callers of every kind at the request handlers, over a users table that
\* holds inactive accounts too.
InitAuth ==
    /\ requests = <<>>
    /\ audit_logs = <<>>
    /\ now = 1
    /\ topics = {}
    /\ acls = {}
    /\ authorizer = "unknown"
    /\ pc = [w \in Workers |-> "idle"]
    /\ call = [w \in Workers |-> IdleCall]
    /\ calls_left = MaxCalls
    /\ prov_log = <<>>
    /\ commit_log = <<>>
    /\ decided = {}
    /\ users = AllAccounts

NextAuth ==
    \/ \E w \in Workers, token \in SubmitterTokens, submission \in TypicalSubmissions :
           SubmitCreate(w, token, submission.endpoint, submission.body)
    \/ \E w \in Workers : SubmitAudit(w)
    \/ \E w \in Workers, request_id \in RequestIds, token \in CallerTokens :
           ApproveLoad(w, request_id, token)
    \/ \E w \in Workers : ApproveProvision(w)
    \/ \E w \in Workers : ApproveCommit(w)
    \/ \E w \in Workers : ApproveAudit(w)
    \/ \E w \in Workers, request_id \in RequestIds, token \in CallerTokens :
           RejectLoad(w, request_id, token, Some("duplicate"))
    \/ \E w \in Workers : RejectCommit(w)
    \/ \E w \in Workers : RejectAudit(w)

SpecAuth == InitAuth /\ [][NextAuth]_vars

\* Logins, with nothing else going on.
NextLogin ==
    \/ \E w \in Workers, username \in LoginNames, directory \in OrdinaryAnswers :
           LoginAuthenticate(w, username, directory)
    \/ \E w \in Workers : LoginCreate(w)
    \/ \E w \in Workers : LoginCreatedAudit(w)
    \/ \E w \in Workers : LoginSync(w)

SpecLogin == Init /\ [][NextLogin]_vars

\* The reads, over a store that holds requests of two users.
InitRead ==
    /\ \E n \in 0..MaxStored :
         /\ now = n + 1
         /\ requests \in StoredTables(n)
    /\ audit_logs = <<>>
    /\ topics = {}
    /\ acls = {}
    /\ authorizer = "unknown"
    /\ pc = [w \in Workers |-> "idle"]
    /\ call = [w \in Workers |-> IdleCall]
    /\ calls_left = MaxCalls
    /\ prov_log = <<>>
    /\ commit_log = <<>>
    /\ decided = {}
    /\ users = KnownUsers

NextRead ==
    \/ \E w \in Workers, token \in ReaderTokens : GetUserRequests(w, token)
    \/ \E w \in Workers, token \in ReaderTokens, request_id \in 1..MaxStored :
           GetUserRequestById(w, token, request_id)
    \/ \E w \in Workers, token \in ReaderTokens : GetAllRequests(w, token)
    \/ \E w \in Workers, token \in ReaderTokens : GetPendingRequests(w, token)

SpecRead == InitRead /\ [][NextRead]_vars

\* Every operation on a request that has been submitted: approve, reject and
\* cancel together with the lists and a login. The store holds alice's
\* request and the audit entry of its submission.
InitFrame ==
    /\ now = 3
    /\ \E submission \in TypicalSubmissions :
         /\ requests = <<[NewRequest("alice", submission.body)
                             EXCEPT !.created_at = Some(1)]>>
         /\ audit_logs =
                <<[AuditEntry("alice", CreatedAction(submission.endpoint), "REQUEST", 1,
                              CreatedDetails(submission.endpoint, submission.body))
                      EXCEPT !.timestamp = 2]>>
    /\ topics = {}
    /\ acls = {}
    /\ authorizer = "unknown"
    /\ pc = [w \in Workers |-> "idle"]
    /\ call = [w \in Workers |-> IdleCall]
    /\ calls_left = MaxFrameCalls
    /\ prov_log = <<>>
    /\ commit_log = <<>>
    /\ decided = {}
    /\ users = KnownUsers

NextFrame ==
    \/ \E w \in Workers, request_id \in RequestIds, admin \in Admins :
           ApproveLoad(w, request_id, CreateAccessToken(admin))
    \/ \E w \in Workers : ApproveProvision(w)
    \/ \E w \in Workers : ApproveCommit(w)
    \/ \E w \in Workers : ApproveAudit(w)
    \/ \E w \in Workers, request_id \in RequestIds, admin \in Admins :
           RejectLoad(w, request_id, CreateAccessToken(admin), Some("duplicate"))
    \/ \E w \in Workers : RejectCommit(w)
    \/ \E w \in Workers : RejectAudit(w)
    \/ \E w \in Workers, request_id \in RequestIds, user \in Submitters :
           CancelLoad(w, request_id, user)
    \/ \E w \in Workers : CancelCommit(w)
    \/ \E w \in Workers, user \in Submitters :
           GetUserRequests(w, CreateAccessToken(user))
    \/ \E w \in Workers, admin \in Admins : GetAllRequests(w, CreateAccessToken(admin))
    \/ \E w \in Workers, user \in Submitters, directory \in OrdinaryAnswers :
           LoginAuthenticate(w, user, directory)
    \/ \E w \in Workers : LoginSync(w)

SpecFrame == InitFrame /\ [][NextFrame]_vars

\* Approvals on a submitted request when the store may fail the commit of the
\* status too, with rejections and cancellations going on.
NextRetry ==
    \/ \E w \in Workers, request_id \in RequestIds, admin \in Admins :
           ApproveLoad(w, request_id, CreateAccessToken(admin))
    \/ \E w \in Workers : ApproveProvision(w)
    \/ \E w \in Workers : ApproveCommit(w)
    \/ \E w \in Workers : ApproveCommitFails(w)
    \/ \E w \in Workers : ApproveAudit(w)
    \/ \E w \in Workers, request_id \in RequestIds, admin \in Admins :
           RejectLoad(w, request_id, CreateAccessToken(admin), Some("duplicate"))
    \/ \E w \in Workers : RejectCommit(w)
    \/ \E w \in Workers : RejectAudit(w)
    \/ \E w \in Workers, request_id \in RequestIds, user \in Submitters :
           CancelLoad(w, request_id, user)
    \/ \E w \in Workers : CancelCommit(w)

SpecRetry == InitFrame /\ [][NextRetry]_vars

\* Logins against a directory that may refuse, fail or answer in any of its
\* ways, by a user whose account exists and by the username "admin".
DirectoryNames == {"alice", "admin"}

NextDirectory ==
    \/ \E w \in Workers, username \in DirectoryNames, directory \in DirectoryAnswers :
           LoginAuthenticate(w, username, directory)
    \/ \E w \in Workers : LoginCreate(w)
    \/ \E w \in Workers : LoginCreatedAudit(w)
    \/ \E w \in Workers : LoginSync(w)

SpecDirectory == Init /\ [][NextDirectory]_vars

\* Submissions of every shape, with nothing else going on.
NextSubmit ==
    \/ \E w \in Workers, user \in Submitters, submission \in AllSubmissions :
           SubmitCreate(w, CreateAccessToken(user), submission.endpoint, submission.body)
    \/ \E w \in Workers : SubmitAudit(w)

SpecSubmit == Init /\ [][NextSubmit]_vars
====
